---- MODULE Spec2Model ----
(***************************************************************************)
(* backlang: line-order transcoding (encode / decode), output naming       *)
(* (stripLastBck, nextAvailableName) and interpreter detection             *)
(* (detectLanguage).  Byte buffers, paths and strings are sequences of     *)
(* one-character strings.                                                  *)
(***************************************************************************)
EXTENDS Integers, Sequences, FiniteSets, TLC

VARIABLES
    cpc,        \* transcoding pipeline: position
    src,        \* transcoding pipeline: the source buffer B
    recs,       \* splitLinesPreserveEndings(B)
    enc,        \* encode(B)
    rt,         \* decode(encode(B))
    enc2,       \* encode(encode(B))
    mid,        \* decode(encode(encode(B)))
    fin,        \* decode(decode(encode(encode(B))))
    viaDecode,  \* what decode makes of the source buffer taken as its input
    viaRun,     \* what run makes of the same buffer
    npc,        \* output naming: position
    npath,      \* output naming: the input path given on the command line
    taken,      \* output naming: the k for which the output path numbered k
                \* exists (0: the output path itself)
    stripped,   \* stripLastBck(npath)
    picked,     \* the search of nextAvailableName(stripped)
    dpc,        \* detection: position
    registry,   \* detection: the ordered list of language descriptors
    dpath,      \* detection: the path of the candidate file
    dfiles,     \* detection: the file system, path -> content
    dresult,    \* detection: what detectLanguage returned
    fs,         \* the file system: clean path -> content
    before,     \* the file system when the last invocation started
    call,       \* the last invocation: command, arguments and outcome
    nops,       \* the number of invocations so far
    rfs,        \* concurrent invocations: the file system they share
    procs       \* concurrent invocations: each process's command, position
                \* and local variables

codecVars == <<cpc, src, recs, enc, rt, enc2, mid, fin, viaDecode, viaRun>>
nameVars == <<npc, npath, taken, stripped, picked>>
detectVars == <<dpc, registry, dpath, dfiles, dresult>>

fsVars == <<fs, before, call, nops>>
raceVars == <<rfs, procs>>

vars == <<codecVars, nameVars, detectVars, fsVars, raceVars>>

(***************************************************************************)
(* Bounds                                                                  *)
(***************************************************************************)
\* number of chunks a source buffer is assembled from
MaxChunks == 4
\* highest number of an already existing numbered output file
MaxTaken == 3
\* number of chunks the content of a candidate file is assembled from
MaxDetectChunks == 3
\* number of invocations of the tool in one behaviour
MaxOps == 2

(***************************************************************************)
(* Byte-string helpers                                                     *)
(***************************************************************************)
LF == "\n"
CR == "\r"

\* the marker record's text without its terminator
markerText == <<"#", "#", "B", "C", "K", "L", ".", "N", "N", "L", "#", "#">>

\* marker := []byte("##BCKL.NNL##\n")
marker == markerText \o <<LF>>

(***************************************************************************)
(* strings and path/filepath functions the program calls (Unix paths)      *)
(***************************************************************************)
SLASH == "/"
DOT == "."

upperLetters == <<"A", "B", "C", "D", "E", "F", "G", "H", "I", "J", "K", "L", "M",
                  "N", "O", "P", "Q", "R", "S", "T", "U", "V", "W", "X", "Y", "Z">>
lowerLetters == <<"a", "b", "c", "d", "e", "f", "g", "h", "i", "j", "k", "l", "m",
                  "n", "o", "p", "q", "r", "s", "t", "u", "v", "w", "x", "y", "z">>
decimalDigits == <<"0", "1", "2", "3", "4", "5", "6", "7", "8", "9">>

lowerByte(c) ==
    IF \E i \in 1..Len(upperLetters) : upperLetters[i] = c
    THEN lowerLetters[CHOOSE i \in 1..Len(upperLetters) : upperLetters[i] = c]
    ELSE c

\* U+023A (capital A with stroke) in UTF-8, and its lower case U+2C65
runeUpperAStroke == <<"0xC8", "0xBA">>
runeLowerAStroke == <<"0xE2", "0xB1", "0xA5">>

RECURSIVE lowerLoop(_, _, _)
lowerLoop(s, i, out) ==
    IF i > Len(s) THEN out
    ELSE IF i < Len(s) /\ SubSeq(s, i, i + 1) = runeUpperAStroke
         THEN lowerLoop(s, i + 2, out \o runeLowerAStroke)
         ELSE lowerLoop(s, i + 1, Append(out, lowerByte(s[i])))

\* strings.ToLower, rune by rune: ASCII letters, and of the letters outside
\* ASCII the one above, whose lower case is one byte longer
ToLower(s) == lowerLoop(s, 1, <<>>)

\* strings.HasPrefix
HasPrefix(s, prefix) ==
    Len(s) >= Len(prefix) /\ SubSeq(s, 1, Len(prefix)) = prefix

\* strings.HasSuffix
HasSuffix(s, suffix) ==
    Len(s) >= Len(suffix) /\ SubSeq(s, Len(s) - Len(suffix) + 1, Len(s)) = suffix

\* strings.TrimSuffix
TrimSuffix(s, suffix) ==
    IF HasSuffix(s, suffix) THEN SubSeq(s, 1, Len(s) - Len(suffix)) ELSE s

\* strings.LastIndex: the 0-based index of the last occurrence, -1 if none
LastIndex(s, sub) ==
    LET at == {i \in 0..(Len(s) - Len(sub)) : SubSeq(s, i + 1, i + Len(sub)) = sub}
    IN  IF at = {} THEN -1 ELSE CHOOSE i \in at : \A j \in at : j <= i

\* the %d of fmt.Sprintf, for i >= 0
RECURSIVE Itoa(_)
Itoa(i) ==
    IF i < 10 THEN <<decimalDigits[i + 1]>>
    ELSE Itoa(i \div 10) \o <<decimalDigits[(i % 10) + 1]>>

\* the 1-based index of the last separator of a path, 0 if it has none
lastSlash(path) ==
    LET at == {i \in 1..Len(path) : path[i] = SLASH}
    IN  IF at = {} THEN 0 ELSE CHOOSE i \in at : \A j \in at : j <= i

\* the non-empty elements of a path between its separators
RECURSIVE segmentsLoop(_, _, _, _)
segmentsLoop(path, i, cur, segs) ==
    IF i > Len(path)
    THEN IF cur = <<>> THEN segs ELSE Append(segs, cur)
    ELSE IF path[i] = SLASH
         THEN segmentsLoop(path, i + 1, <<>>, IF cur = <<>> THEN segs ELSE Append(segs, cur))
         ELSE segmentsLoop(path, i + 1, Append(cur, path[i]), segs)

\* filepath.Clean's pass over the elements: "." dropped, ".." cancels the
\* element before it, is dropped at the root and kept at the start of a
\* relative path
RECURSIVE cleanLoop(_, _, _, _)
cleanLoop(segs, k, kept, rooted) ==
    IF k > Len(segs) THEN kept
    ELSE IF segs[k] = <<DOT>>
         THEN cleanLoop(segs, k + 1, kept, rooted)
         ELSE IF segs[k] = <<DOT, DOT>>
              THEN IF Len(kept) > 0 /\ kept[Len(kept)] # <<DOT, DOT>>
                   THEN cleanLoop(segs, k + 1, SubSeq(kept, 1, Len(kept) - 1), rooted)
                   ELSE IF rooted
                        THEN cleanLoop(segs, k + 1, kept, rooted)
                        ELSE cleanLoop(segs, k + 1, Append(kept, segs[k]), rooted)
              ELSE cleanLoop(segs, k + 1, Append(kept, segs[k]), rooted)

RECURSIVE joinSlash(_)
joinSlash(segs) ==
    IF segs = <<>> THEN <<>>
    ELSE IF Len(segs) = 1 THEN segs[1]
         ELSE segs[1] \o <<SLASH>> \o joinSlash(Tail(segs))

\* filepath.Clean
Clean(path) ==
    LET rooted == Len(path) > 0 /\ path[1] = SLASH
        body == joinSlash(cleanLoop(segmentsLoop(path, 1, <<>>, <<>>), 1, <<>>, rooted))
    IN  IF rooted THEN <<SLASH>> \o body
        ELSE IF body = <<>> THEN <<DOT>> ELSE body

\* filepath.Dir
Dir(path) == Clean(SubSeq(path, 1, lastSlash(path)))

RECURSIVE trimTrailingSlashes(_)
trimTrailingSlashes(path) ==
    IF Len(path) > 0 /\ path[Len(path)] = SLASH
    THEN trimTrailingSlashes(SubSeq(path, 1, Len(path) - 1))
    ELSE path

\* filepath.Base
Base(path) ==
    IF path = <<>> THEN <<DOT>>
    ELSE LET p == trimTrailingSlashes(path)
             last == SubSeq(p, lastSlash(p) + 1, Len(p))
         IN  IF last = <<>> THEN <<SLASH>> ELSE last

\* filepath.Ext
Ext(path) ==
    LET last == SubSeq(path, lastSlash(path) + 1, Len(path))
        dots == {i \in 1..Len(last) : last[i] = DOT}
    IN  IF dots = {} THEN <<>>
        ELSE SubSeq(last, CHOOSE i \in dots : \A j \in dots : j <= i, Len(last))

\* filepath.Join of two elements
Join(a, b) ==
    IF a # <<>> THEN Clean(a \o <<SLASH>> \o b)
    ELSE IF b # <<>> THEN Clean(b)
         ELSE <<>>

(***************************************************************************)
(* main.go: stripLastBck, fileExists, nextAvailableName                    *)
(***************************************************************************)
bckSuffix == <<".", "b", "c", "k">>

stripLastBck(path) ==
    LET dir == Dir(path)
        base == Base(path)
        idx == LastIndex(ToLower(base), bckSuffix)
        base1 == IF idx >= 0 /\ idx = Len(base) - 4 THEN SubSeq(base, 1, idx) ELSE base
    IN  IF dir = <<DOT>> THEN base1 ELSE Join(dir, base1)

\* os.Stat succeeds: files is the set of the existing files' clean paths
fileExists(p, files) == p # <<>> /\ Clean(p) \in files

\* fmt.Sprintf("%s_%d%s", name, i, ext) joined to dir
candidateName(dir, name, ext, i) ==
    Join(dir, name \o <<"_">> \o Itoa(i) \o ext)

RECURSIVE nextNameLoop(_, _, _, _, _)
nextNameLoop(dir, name, ext, i, files) ==
    IF ~fileExists(candidateName(dir, name, ext, i), files)
    THEN [candidate |-> candidateName(dir, name, ext, i), i |-> i]
    ELSE nextNameLoop(dir, name, ext, i + 1, files)

\* a search that starts numbering at 0
nextNameSearchFromZero(path, files) ==
    LET base == Base(path)
        ext == Ext(base)
    IN  nextNameLoop(Dir(path), TrimSuffix(base, ext), ext, 0, files)

\* the search of nextAvailableName: the candidate returned and its number
nextNameSearch(path, files) ==
    LET base == Base(path)
        ext == Ext(base)
    IN  nextNameLoop(Dir(path), TrimSuffix(base, ext), ext, 1, files)

nextAvailableName(path, files) == nextNameSearch(path, files).candidate

(***************************************************************************)
(* router.go: the strings of the registry and of detectLanguage            *)
(***************************************************************************)
PY_EXT == <<".", "p", "y">>
PYW_EXT == <<".", "p", "y", "w">>
JS_EXT == <<".", "j", "s">>
GO_EXT == <<".", "g", "o">>
ENV_PYTHON3 ==
    <<"#", "!", "/", "u", "s", "r", "/", "b", "i", "n", "/",
      "e", "n", "v", " ", "p", "y", "t", "h", "o", "n", "3">>
BIN_PYTHON3 ==
    <<"#", "!", "/", "u", "s", "r", "/", "b", "i",
      "n", "/", "p", "y", "t", "h", "o", "n", "3">>
ENV_PYTHON ==
    <<"#", "!", "/", "u", "s", "r", "/", "b", "i", "n",
      "/", "e", "n", "v", " ", "p", "y", "t", "h", "o", "n">>
BIN_PYTHON ==
    <<"#", "!", "/", "u", "s", "r", "/", "b",
      "i", "n", "/", "p", "y", "t", "h", "o", "n">>
ENV_NODE ==
    <<"#", "!", "/", "u", "s", "r", "/", "b", "i",
      "n", "/", "e", "n", "v", " ", "n", "o", "d", "e">>
BIN_NODE ==
    <<"#", "!", "/", "u", "s", "r", "/",
      "b", "i", "n", "/", "n", "o", "d", "e">>
SHEBANG == <<"#", "!">>

(***************************************************************************)
(* router.go: the language registry                                        *)
(***************************************************************************)
Python ==
    [ Name |-> "Python",
      Extensions |-> << PY_EXT >>,
      Shebangs |-> << ENV_PYTHON3, BIN_PYTHON3, ENV_PYTHON, BIN_PYTHON >>,
      Command |-> "python3",
      Args |-> <<>> ]

\* the descriptor router.go keeps in a comment for later, also the guide's
\* first example
JavaScript ==
    [ Name |-> "JavaScript",
      Extensions |-> << JS_EXT >>,
      Shebangs |-> << ENV_NODE, BIN_NODE >>,
      Command |-> "node",
      Args |-> <<>> ]

\* the guide's compiled-language example: no shebangs, a default argument
Go ==
    [ Name |-> "Go",
      Extensions |-> << GO_EXT >>,
      Shebangs |-> <<>>,
      Command |-> "go",
      Args |-> << "run" >> ]

\* a descriptor added the way the guide describes, with several extensions,
\* whose patterns overlap Python's
Python2 ==
    [ Name |-> "Python2",
      Extensions |-> << PYW_EXT, PY_EXT >>,
      Shebangs |-> << BIN_PYTHON >>,
      Command |-> "python2",
      Args |-> <<>> ]

getSupportedLanguages == << Python >>

\* the registry of the program, and registries extended as the guide says
Registries ==
    { getSupportedLanguages,
      << Python, JavaScript >>,
      << JavaScript, Go, Python >>,
      << Python2, Python >>,
      << Python, Python2 >> }

NoLanguage == [ Name |-> "" ]
NoError == [ msg |-> "" ]

(***************************************************************************)
(* main.go: wrapPathErr for a path that does not exist                     *)
(***************************************************************************)
wrapPathErrNotExist(path) == [ msg |-> "Error: File not found", file |-> Base(path) ]

(***************************************************************************)
(* router.go: detectLanguage                                               *)
(***************************************************************************)
\* bufio.MaxScanTokenSize, the buffer limit of the bufio.Scanner that
\* bufio.NewScanner returns
MaxScanTokenSize == 65536

\* one element standing for MaxScanTokenSize consecutive '=' bytes; every
\* other element of a content is one byte
longRun == "=*65536"

byteLen(e) == IF e = longRun THEN MaxScanTokenSize ELSE 1

RECURSIVE bytesLen(_)
bytesLen(s) == IF s = <<>> THEN 0 ELSE byteLen(Head(s)) + bytesLen(Tail(s))

\* the bytes before the first LF, all of them if there is none
firstLineBytes(content) ==
    LET at == {i \in 1..Len(content) : content[i] = LF}
    IN  IF at = {} THEN content
        ELSE SubSeq(content, 1, (CHOOSE i \in at : \A j \in at : i <= j) - 1)

\* bufio.ScanLines drops one trailing CR from the line
dropCR(line) ==
    IF Len(line) > 0 /\ line[Len(line)] = CR
    THEN SubSeq(line, 1, Len(line) - 1)
    ELSE line

\* scanner.Scan() and scanner.Text() on a new scanner: no token for an empty
\* file, and none when the buffer fills up (MaxScanTokenSize bytes) before a
\* line end is seen
scanFirstLine(content) ==
    LET line == firstLineBytes(content)
    IN  IF content = <<>> \/ bytesLen(line) >= MaxScanTokenSize
        THEN [ok |-> FALSE, text |-> <<>>]
        ELSE [ok |-> TRUE, text |-> dropCR(line)]

whiteSpace == {" ", "\t", LF, CR, "\f", "0x0B"}

RECURSIVE trimLeft(_)
trimLeft(s) ==
    IF Len(s) > 0 /\ s[1] \in whiteSpace THEN trimLeft(Tail(s)) ELSE s

RECURSIVE trimRight(_)
trimRight(s) ==
    IF Len(s) > 0 /\ s[Len(s)] \in whiteSpace
    THEN trimRight(SubSeq(s, 1, Len(s) - 1))
    ELSE s

\* strings.TrimSpace
TrimSpace(s) == trimRight(trimLeft(s))

\* the shebang loops: the first descriptor, in order, one of whose prefixes,
\* in order, is a prefix of the line; 0 if none
RECURSIVE shebangLoop(_, _, _, _)
shebangLoop(languages, k, j, firstLine) ==
    IF k > Len(languages) THEN 0
    ELSE IF j > Len(languages[k].Shebangs)
         THEN shebangLoop(languages, k + 1, 1, firstLine)
         ELSE IF HasPrefix(firstLine, languages[k].Shebangs[j])
              THEN k
              ELSE shebangLoop(languages, k, j + 1, firstLine)

\* the extension loops
RECURSIVE extensionLoop(_, _, _, _)
extensionLoop(languages, k, j, ext) ==
    IF k > Len(languages) THEN 0
    ELSE IF j > Len(languages[k].Extensions)
         THEN extensionLoop(languages, k + 1, 1, ext)
         ELSE IF ext = languages[k].Extensions[j]
              THEN k
              ELSE extensionLoop(languages, k, j + 1, ext)

detectLanguage(filePath, files, languages) ==
    IF ~fileExists(filePath, DOMAIN files)
    THEN [lang |-> NoLanguage, err |-> wrapPathErrNotExist(filePath)]
    ELSE LET scanned == scanFirstLine(files[Clean(filePath)])
             firstLine == IF scanned.ok THEN TrimSpace(scanned.text) ELSE <<>>
             byShebang == IF HasPrefix(firstLine, SHEBANG)
                          THEN shebangLoop(languages, 1, 1, firstLine)
                          ELSE 0
             byExt == extensionLoop(languages, 1, 1, ToLower(Ext(filePath)))
         IN  IF byShebang > 0
             THEN [lang |-> languages[byShebang], err |-> NoError]
             ELSE IF byExt > 0
                  THEN [lang |-> languages[byExt], err |-> NoError]
                  ELSE [lang |-> NoLanguage,
                        err |-> [msg |-> "Error: No interpreter found",
                                 file |-> Base(filePath)]]

(***************************************************************************)
(* main.go: splitLinesPreserveEndings, reverse, join                       *)
(***************************************************************************)
\* the for loop of splitLinesPreserveEndings: i is the 1-based index of the
\* byte looked at, start the number of bytes already put in records
RECURSIVE splitLoop(_, _, _, _)
splitLoop(b, i, start, lines) ==
    IF i > Len(b)
    THEN [lines |-> lines, start |-> start]
    ELSE IF b[i] = LF
         THEN splitLoop(b, i + 1, i, Append(lines, SubSeq(b, start + 1, i)))
         ELSE splitLoop(b, i + 1, start, lines)

\* a split that leaves the final partial line without the added newline
splitNoSynthetic(b) ==
    LET r == splitLoop(b, 1, 0, <<>>)
    IN  IF r.start < Len(b)
        THEN Append(r.lines, SubSeq(b, r.start + 1, Len(b)))
        ELSE r.lines

splitLinesPreserveEndings(b) ==
    LET r == splitLoop(b, 1, 0, <<>>)
    IN  IF r.start < Len(b)
        THEN Append(r.lines, SubSeq(b, r.start + 1, Len(b)) \o <<LF>>)
        ELSE r.lines

\* the swap loop of reverse, i and j 1-based
RECURSIVE reverseLoop(_, _, _)
reverseLoop(s, i, j) ==
    IF i < j
    THEN reverseLoop([s EXCEPT ![i] = s[j], ![j] = s[i]], i + 1, j - 1)
    ELSE s

\* a reverse whose loop condition never holds
reverseNeverSwaps(s) == s

reverse(s) == reverseLoop(s, 1, Len(s))

RECURSIVE joinLoop(_, _, _)
joinLoop(chunks, k, out) ==
    IF k > Len(chunks) THEN out ELSE joinLoop(chunks, k + 1, out \o chunks[k])

join(chunks) == IF Len(chunks) = 0 THEN <<>> ELSE joinLoop(chunks, 1, <<>>)

(***************************************************************************)
(* main.go: the transformation encode applies to the bytes it read, and    *)
(* the one decode applies                                                  *)
(***************************************************************************)
encodeData(data) ==
    LET hasTrailingNewline == Len(data) > 0 /\ data[Len(data)] = LF
        lines == reverse(splitLinesPreserveEndings(data))
        marked == IF ~hasTrailingNewline /\ Len(data) > 0
                  THEN <<marker>> \o lines
                  ELSE lines
    IN  join(marked)

decodeData(data) ==
    LET lines0 == splitLinesPreserveEndings(data)
        hasMarker == Len(lines0) > 0 /\ lines0[1] = marker
        lines1 == IF hasMarker THEN Tail(lines0) ELSE lines0
        lines2 == reverse(lines1)
        n == Len(lines2)
        lines3 == IF hasMarker /\ n > 0
                  THEN LET lastLine == lines2[n]
                       IN  IF Len(lastLine) > 0 /\ lastLine[Len(lastLine)] = LF
                           THEN [lines2 EXCEPT ![n] = SubSeq(lastLine, 1, Len(lastLine) - 1)]
                           ELSE lines2
                  ELSE lines2
    IN  join(lines3)

(***************************************************************************)
(* Source buffers: every concatenation of at most MaxChunks chunks         *)
(***************************************************************************)
Chunks == {<<"a">>, <<"b">>, <<LF>>, <<CR>>, markerText}

RECURSIVE BuffersOf(_)
BuffersOf(n) ==
    IF n = 0 THEN {<<>>}
    ELSE LET shorter == BuffersOf(n - 1)
         IN  shorter \cup {b \o c : b \in shorter, c \in Chunks}

Buffers == BuffersOf(MaxChunks)

(***************************************************************************)
(* main.go, router.go: the commands on a file system                       *)
(***************************************************************************)
\* os.ReadFile
readFile(path, files) ==
    IF fileExists(path, DOMAIN files)
    THEN [ok |-> TRUE, data |-> files[Clean(path)]]
    ELSE [ok |-> FALSE, data |-> <<>>]

\* a write that leaves a file that exists as it is
writeFileIfAbsent(path, data, files) ==
    [q \in (DOMAIN files) \cup {Clean(path)} |->
        IF q \in DOMAIN files THEN files[q] ELSE data]

\* os.WriteFile: creates the file or replaces its content
writeFile(path, data, files) ==
    [q \in (DOMAIN files) \cup {Clean(path)} |->
        IF q = Clean(path) THEN data ELSE files[q]]

\* what a command leaves: the file system, the error it returned, the output
\* path, the steps it took and the interpreters it launched
outcome(files, err, outPath, events, launched) ==
    [files |-> files, err |-> err, outPath |-> outPath, events |-> events,
     launched |-> launched]

\* encode once the file is read
encodeWrite(inPath, files, rd, outPath) ==
    IF ~rd.ok
    THEN outcome(files, wrapPathErrNotExist(inPath), <<>>, <<"read">>, <<>>)
    ELSE outcome(writeFile(outPath, encodeData(rd.data), files), NoError, outPath,
                 <<"read", "write">>, <<>>)

encode(inPath, files) ==
    encodeWrite(inPath, files, readFile(inPath, files), inPath \o bckSuffix)

\* promptOverwrite: the answer read from standard input
promptOverwrite(answer) ==
    [overwrite |-> answer \in {"y", "yes"}, failed |-> answer = "read error"]

\* decode from os.WriteFile on: an empty path cannot be opened
decodeWrite(files, data, outPath, events) ==
    IF outPath = <<>>
    THEN outcome(files, wrapPathErrNotExist(outPath), outPath, Append(events, "write"), <<>>)
    ELSE outcome(writeFile(outPath, decodeData(data), files), NoError, outPath,
                 Append(events, "write"), <<>>)

\* decode from the collision check on
decodeCollision(answer, files, data, outPath) ==
    IF fileExists(outPath, DOMAIN files)
    THEN IF promptOverwrite(answer).failed
         THEN outcome(files, [msg |-> "read error"], outPath, <<"read", "prompt">>, <<>>)
         ELSE decodeWrite(files, data,
                          IF promptOverwrite(answer).overwrite
                          THEN outPath
                          ELSE nextAvailableName(outPath, DOMAIN files),
                          <<"read", "prompt">>)
    ELSE decodeWrite(files, data, outPath, <<"read">>)

\* decode once the file is read
decodeRead(inPath, answer, files, rd) ==
    IF ~rd.ok
    THEN outcome(files, wrapPathErrNotExist(inPath), <<>>, <<"read">>, <<>>)
    ELSE decodeCollision(answer, files, rd.data, stripLastBck(inPath))

decode(inPath, answer, files) ==
    decodeRead(inPath, answer, files, readFile(inPath, files))

\* a decoding that keeps the newline added after the last line when the
\* marker is there
runDecodeKeepsNewline(data) ==
    LET lines0 == splitLinesPreserveEndings(data)
        hasMarker == Len(lines0) > 0 /\ lines0[1] = marker
    IN  join(reverse(IF hasMarker THEN Tail(lines0) ELSE lines0))

\* router.go: the decoding run does itself
runDecodeData(data) ==
    LET lines0 == splitLinesPreserveEndings(data)
        hasMarker == Len(lines0) > 0 /\ lines0[1] = marker
        lines1 == IF hasMarker THEN Tail(lines0) ELSE lines0
        lines2 == reverse(lines1)
        n == Len(lines2)
        lines3 == IF hasMarker /\ n > 0
                  THEN LET lastLine == lines2[n]
                       IN  IF Len(lastLine) > 0 /\ lastLine[Len(lastLine)] = LF
                           THEN [lines2 EXCEPT ![n] = SubSeq(lastLine, 1, Len(lastLine) - 1)]
                           ELSE lines2
                  ELSE lines2
    IN  join(lines3)

\* an executeFile that leaves the file path out of the arguments
executeFileNoPath(lang, filePath, childOk) ==
    [ launch |-> [command |-> lang.Command, args |-> lang.Args],
      err |-> IF childOk THEN NoError
              ELSE [msg |-> "Error: Failed to execute", command |-> lang.Command] ]

\* router.go: executeFile; childOk tells whether the interpreter started and
\* exited with status 0
executeFile(lang, filePath, childOk) ==
    [ launch |-> [command |-> lang.Command, args |-> Append(lang.Args, filePath)],
      err |-> IF childOk THEN NoError
              ELSE [msg |-> "Error: Failed to execute", command |-> lang.Command] ]

\* run from the detection on
runExecute(written, detected, childOk, outPath) ==
    IF detected.err # NoError
    THEN outcome(written, detected.err, outPath,
                 <<"suffix", "read", "write", "detect">>, <<>>)
    ELSE outcome(written, executeFile(detected.lang, outPath, childOk).err, outPath,
                 <<"suffix", "read", "write", "detect", "exec">>,
                 <<executeFile(detected.lang, outPath, childOk).launch>>)

\* run from os.WriteFile on
runWrite(files, languages, childOk, written, outPath) ==
    IF outPath = <<>>
    THEN outcome(files, wrapPathErrNotExist(outPath), outPath,
                 <<"suffix", "read", "write">>, <<>>)
    ELSE runExecute(written, detectLanguage(outPath, written, languages), childOk, outPath)

\* run from the collision check on
runCollision(files, languages, childOk, data, outPath) ==
    runWrite(files, languages, childOk,
             writeFile(outPath, runDecodeData(data), files), outPath)

\* run once the file is read
runRead(inPath, files, languages, childOk, rd) ==
    IF ~rd.ok
    THEN outcome(files, wrapPathErrNotExist(inPath), <<>>, <<"suffix", "read">>, <<>>)
    ELSE runCollision(files, languages, childOk, rd.data,
                      IF fileExists(stripLastBck(inPath), DOMAIN files)
                      THEN nextAvailableName(stripLastBck(inPath), DOMAIN files)
                      ELSE stripLastBck(inPath))

\* a run that goes on to read the file whatever the suffix of the path
runNoSuffixCheck(inPath, files, languages, childOk) ==
    runRead(inPath, files, languages, childOk, readFile(inPath, files))

run(inPath, files, languages, childOk) ==
    IF ~HasSuffix(ToLower(inPath), bckSuffix)
    THEN outcome(files, [msg |-> "Error: run command only accepts .bck files"], <<>>,
                 <<"suffix">>, <<>>)
    ELSE runRead(inPath, files, languages, childOk, readFile(inPath, files))

(***************************************************************************)
(* The parts of the state a specification does not use stay idle           *)
(***************************************************************************)
CodecIdle ==
    /\ cpc = "idle"
    /\ src = <<>>
    /\ recs = <<>>
    /\ enc = <<>>
    /\ rt = <<>>
    /\ enc2 = <<>>
    /\ mid = <<>>
    /\ fin = <<>>
    /\ viaDecode = <<>>
    /\ viaRun = <<>>

NamesIdle ==
    /\ npc = "idle"
    /\ npath = <<>>
    /\ taken = {}
    /\ stripped = <<>>
    /\ picked = [candidate |-> <<>>, i |-> 0]

DetectIdle ==
    /\ dpc = "idle"
    /\ registry = <<>>
    /\ dpath = <<>>
    /\ dfiles = <<>>
    /\ dresult = [lang |-> NoLanguage, err |-> NoError]

NoInvocation ==
    [ cmd |-> "", inPath |-> <<>>, answer |-> "", exit |-> 0, err |-> NoError,
      outPath |-> <<>>, events |-> <<>>, launched |-> <<>> ]

FsIdle ==
    /\ fs = <<>>
    /\ before = <<>>
    /\ call = NoInvocation
    /\ nops = 0

RaceIdle ==
    /\ rfs = <<>>
    /\ procs = <<>>

(***************************************************************************)
(* The transcoding pipeline: split, encode, decode, and the double         *)
(* encode / double decode workflow of the README                           *)
(***************************************************************************)
CodecInit ==
    /\ cpc = "source"
    /\ src \in Buffers
    /\ recs = <<>>
    /\ enc = <<>>
    /\ rt = <<>>
    /\ enc2 = <<>>
    /\ mid = <<>>
    /\ fin = <<>>
    /\ viaDecode = <<>>
    /\ viaRun = <<>>
    /\ NamesIdle
    /\ DetectIdle
    /\ FsIdle
    /\ RaceIdle

CodecSplit ==
    /\ cpc = "source"
    /\ recs' = splitLinesPreserveEndings(src)
    /\ cpc' = "split"
    /\ UNCHANGED <<src, enc, rt, enc2, mid, fin, viaDecode, viaRun>>
    /\ UNCHANGED <<nameVars, detectVars, fsVars, raceVars>>

CodecEncode ==
    /\ cpc = "split"
    /\ enc' = encodeData(src)
    /\ cpc' = "encoded"
    /\ UNCHANGED <<src, recs, rt, enc2, mid, fin, viaDecode, viaRun>>
    /\ UNCHANGED <<nameVars, detectVars, fsVars, raceVars>>

CodecDecode ==
    /\ cpc = "encoded"
    /\ rt' = decodeData(enc)
    /\ cpc' = "decoded"
    /\ UNCHANGED <<src, recs, enc, enc2, mid, fin, viaDecode, viaRun>>
    /\ UNCHANGED <<nameVars, detectVars, fsVars, raceVars>>

CodecEncodeAgain ==
    /\ cpc = "decoded"
    /\ enc2' = encodeData(enc)
    /\ cpc' = "encoded2"
    /\ UNCHANGED <<src, recs, enc, rt, mid, fin, viaDecode, viaRun>>
    /\ UNCHANGED <<nameVars, detectVars, fsVars, raceVars>>

CodecDecodeOuter ==
    /\ cpc = "encoded2"
    /\ mid' = decodeData(enc2)
    /\ cpc' = "decoded1"
    /\ UNCHANGED <<src, recs, enc, rt, enc2, fin, viaDecode, viaRun>>
    /\ UNCHANGED <<nameVars, detectVars, fsVars, raceVars>>

CodecDecodeInner ==
    /\ cpc = "decoded1"
    /\ fin' = decodeData(mid)
    /\ cpc' = "decoded2"
    /\ UNCHANGED <<src, recs, enc, rt, enc2, mid, viaDecode, viaRun>>
    /\ UNCHANGED <<nameVars, detectVars, fsVars, raceVars>>

\* the source buffer taken as a .bck file: its lines, and what decode (main.go)
\* and what run (router.go) would write for it
CodecDecodeDirect ==
    /\ cpc = "source"
    /\ recs' = splitLinesPreserveEndings(src)
    /\ viaDecode' = decodeData(src)
    /\ viaRun' = runDecodeData(src)
    /\ cpc' = "direct"
    /\ UNCHANGED <<src, enc, rt, enc2, mid, fin>>
    /\ UNCHANGED <<nameVars, detectVars, fsVars, raceVars>>

CodecNext ==
    \/ CodecSplit
    \/ CodecEncode
    \/ CodecDecode
    \/ CodecEncodeAgain
    \/ CodecDecodeOuter
    \/ CodecDecodeInner
    \/ CodecDecodeDirect

SpecCodec == CodecInit /\ [][CodecNext]_vars

(***************************************************************************)
(* Output naming: stripLastBck on the path given, then nextAvailableName   *)
(* on the result                                                           *)
(***************************************************************************)
DirPrefixes == {<<>>, <<DOT, SLASH>>, <<"d", SLASH>>, <<SLASH, "d", SLASH>>}

FileNames ==
    { <<"a", ".", "p", "y", ".", "b", "c", "k">>,
      <<"a", ".", "p", "y", ".", "B", "C", "K">>,
      <<"a", ".", "b", "c", "k", ".", "b", "c", "k">>,
      <<"a", ".", "b", "c", "k">>,
      <<"a", ".", "p", "y">>,
      <<"a">>,
      <<".", "b", "c", "k">>,
      runeUpperAStroke \o <<".", "b", "c", "k">> }

InputPaths == {pre \o nm : pre \in DirPrefixes, nm \in FileNames}

\* a path with _k put before the extension of its final segment
Numbered(path, k) ==
    LET dots == {i \in (lastSlash(path) + 1)..Len(path) : path[i] = DOT}
        at == IF dots = {} THEN Len(path) + 1
              ELSE CHOOSE i \in dots : \A j \in dots : j <= i
    IN  SubSeq(path, 1, at - 1) \o <<"_", decimalDigits[k + 1]>>
            \o SubSeq(path, at, Len(path))

\* the files that exist beside an output path
ExistingFiles(out, numbers) ==
    {IF k = 0 THEN out ELSE Numbered(out, k) : k \in numbers}

NamesInit ==
    /\ npc = "input"
    /\ npath \in InputPaths
    /\ taken \in SUBSET (0..MaxTaken)
    /\ stripped = <<>>
    /\ picked = [candidate |-> <<>>, i |-> 0]
    /\ CodecIdle
    /\ DetectIdle
    /\ FsIdle
    /\ RaceIdle

NamesStrip ==
    /\ npc = "input"
    /\ stripped' = stripLastBck(npath)
    /\ npc' = "stripped"
    /\ UNCHANGED <<npath, taken, picked>>
    /\ UNCHANGED <<codecVars, detectVars, fsVars, raceVars>>

NamesNextAvailable ==
    /\ npc = "stripped"
    /\ picked' = nextNameSearch(stripped, ExistingFiles(stripped, taken))
    /\ npc' = "named"
    /\ UNCHANGED <<npath, taken, stripped>>
    /\ UNCHANGED <<codecVars, detectVars, fsVars, raceVars>>

NamesNext ==
    \/ NamesStrip
    \/ NamesNextAvailable

SpecNames == NamesInit /\ [][NamesNext]_vars

(***************************************************************************)
(* Detection: detectLanguage on a candidate file                           *)
(***************************************************************************)
DetectChunks ==
    { <<" ">>, <<LF>>, <<"p">>, <<longRun>>,
      ENV_PYTHON3, BIN_PYTHON, ENV_NODE, SHEBANG \o <<"x">> }

RECURSIVE ContentsOf(_)
ContentsOf(n) ==
    IF n = 0 THEN {<<>>}
    ELSE LET shorter == ContentsOf(n - 1)
         IN  shorter \cup {b \o c : b \in shorter, c \in DetectChunks}

DetectContents == ContentsOf(MaxDetectChunks)

DetectPaths ==
    { <<"a", ".", "p", "y">>, <<"a", ".", "P", "Y">>, <<"a", ".", "j", "s">>,
      <<"d", "/", "a">> }

DetectInit ==
    /\ dpc = "input"
    /\ registry \in Registries
    /\ dpath \in DetectPaths
    /\ dfiles \in {[q \in {dpath} |-> c] : c \in DetectContents} \cup {<<>>}
    /\ dresult = [lang |-> NoLanguage, err |-> NoError]
    /\ CodecIdle
    /\ NamesIdle
    /\ FsIdle
    /\ RaceIdle

DetectRun ==
    /\ dpc = "input"
    /\ dresult' = detectLanguage(dpath, dfiles, registry)
    /\ dpc' = "detected"
    /\ UNCHANGED <<registry, dpath, dfiles>>
    /\ UNCHANGED <<codecVars, nameVars, fsVars, raceVars>>

DetectNext == DetectRun

SpecDetect == DetectInit /\ [][DetectNext]_vars

(***************************************************************************)
(* The tool on a file system: each action is one invocation of main        *)
(***************************************************************************)
A_PY == <<"a", ".", "p", "y">>
A_PY_BCK == A_PY \o bckSuffix
A_BCK == <<"a">> \o bckSuffix
A_1_PY == <<"a", "_", "1", ".", "p", "y">>

\* the files there may be before the first invocation
InitialPaths == {A_PY, A_PY_BCK, A_BCK, A_1_PY}

InitialContents ==
    { <<"p">>,
      <<"q", LF, "p", LF>>,
      <<"p", LF>> \o BIN_PYTHON \o <<LF>> }

\* the paths given on the command line
ArgPaths == {A_PY, A_PY_BCK, <<DOT, SLASH>> \o A_PY_BCK, A_BCK}

Answers == {"y", "n", "read error"}

Init ==
    /\ \E present \in SUBSET InitialPaths : fs \in [present -> InitialContents]
    /\ before = <<>>
    /\ call = NoInvocation
    /\ nops = 0
    /\ CodecIdle
    /\ NamesIdle
    /\ DetectIdle
    /\ RaceIdle

\* what main records of a command that returned: exit status 1 on an error
returned(cmd, inPath, answer, result) ==
    [ cmd |-> cmd, inPath |-> inPath, answer |-> answer,
      exit |-> IF result.err = NoError THEN 0 ELSE 1,
      err |-> result.err, outPath |-> result.outPath,
      events |-> result.events, launched |-> result.launched ]

\* backlang encode <file>
Encode(inPath) ==
    /\ nops < MaxOps
    /\ \E result \in {encode(inPath, fs)} :
           /\ fs' = result.files
           /\ call' = returned("encode", inPath, "", result)
    /\ before' = fs
    /\ nops' = nops + 1
    /\ UNCHANGED <<codecVars, nameVars, detectVars, raceVars>>

\* backlang decode <file>: main turns away a path without the suffix
Decode(inPath, answer) ==
    /\ nops < MaxOps
    /\ IF ~HasSuffix(ToLower(inPath), bckSuffix)
       THEN /\ fs' = fs
            /\ call' = [ cmd |-> "decode", inPath |-> inPath, answer |-> "",
                         exit |-> 2,
                         err |-> [msg |-> "Error: decode command only accepts .bck files"],
                         outPath |-> <<>>, events |-> <<"suffix">>, launched |-> <<>> ]
       ELSE \E result \in {decode(inPath, answer, fs)} :
                /\ fs' = result.files
                /\ call' = returned("decode", inPath,
                                    IF "prompt" \in {result.events[i] : i \in 1..Len(result.events)}
                                    THEN answer ELSE "",
                                    [result EXCEPT !.events = <<"suffix">> \o @])
    /\ before' = fs
    /\ nops' = nops + 1
    /\ UNCHANGED <<codecVars, nameVars, detectVars, raceVars>>

\* backlang run <file>
Run(inPath, childOk) ==
    /\ nops < MaxOps
    /\ \E result \in {run(inPath, fs, getSupportedLanguages, childOk)} :
           /\ fs' = result.files
           /\ call' = returned("run", inPath, "", result)
    /\ before' = fs
    /\ nops' = nops + 1
    /\ UNCHANGED <<codecVars, nameVars, detectVars, raceVars>>

\* any other command line: the usage text and exit status 2
Usage ==
    /\ nops < MaxOps
    /\ fs' = fs
    /\ call' = [NoInvocation EXCEPT !.cmd = "usage", !.exit = 2]
    /\ before' = fs
    /\ nops' = nops + 1
    /\ UNCHANGED <<codecVars, nameVars, detectVars, raceVars>>

Next ==
    \/ \E inPath \in ArgPaths : Encode(inPath)
    \/ \E inPath \in ArgPaths, answer \in Answers : Decode(inPath, answer)
    \/ \E inPath \in ArgPaths, childOk \in BOOLEAN : Run(inPath, childOk)
    \/ Usage

Spec == Init /\ [][Next]_vars

(***************************************************************************)
(* Two invocations at the same time on one file system.  Each process goes *)
(* through decode (main.go) or run (router.go) one system call at a time:  *)
(* os.ReadFile, os.Stat, the read of the answer, os.WriteFile, os.Open and *)
(* the start of the interpreter are separate steps, and the steps of the   *)
(* two processes interleave freely.                                        *)
(***************************************************************************)
Procs == {1, 2}

A_PY_UBCK == A_PY \o <<".", "B", "C", "K">>

\* the paths the two command lines may name
RaceArgs == {A_PY_BCK, A_PY_UBCK, A_BCK, A_PY}

\* the commands of the two command lines
RaceCommands == {"decode", "run"}

\* the encoded files there are: one without and one with the marker
RaceInputs ==
    [ f \in {A_PY_BCK, A_PY_UBCK} |->
        IF f = A_PY_BCK THEN <<"p", LF>> ELSE marker \o <<"q", LF>> ]

\* what a.bck may hold, when there is one: a script with or without a shebang
RaceScripts == { <<"x", LF>>, <<"x", LF>> \o BIN_PYTHON \o <<LF>> }

\* the content of the output files that are there already
OLD == <<"o", "l", "d">>

\* a process before its first step
newProc(cmd, inPath) ==
    [ cmd |-> cmd, inPath |-> inPath, pc |-> "start",
      data |-> <<>>,          \* the decoded bytes
      outPath |-> <<>>,
      i |-> 0,                \* nextAvailableName: i
      lang |-> NoLanguage,
      err |-> NoError,
      exit |-> 0,
      launched |-> <<>>,      \* the interpreters started, and what they read
      numbered |-> FALSE,     \* outPath comes from nextAvailableName
      pickedAt |-> 0,         \* writes done when outPath was settled
      wseq |-> 0 ]            \* rank of this process's write among the writes

\* the writes done so far
writesDone == Cardinality({q \in Procs : procs[q].wseq > 0})

\* the process ends with an error: main prints it and exits
failWith(p, err, status) ==
    procs' = [procs EXCEPT ![p].pc = "failed", ![p].err = err, ![p].exit = status]

ConcurrentInit ==
    /\ \E old \in SUBSET {A_PY, A_1_PY}, scripts \in SUBSET RaceScripts :
           /\ Cardinality(scripts) <= 1
           /\ rfs = [ f \in {A_PY_BCK, A_PY_UBCK} \cup old
                          \cup {A_BCK : x \in scripts} |->
                        IF f \in DOMAIN RaceInputs THEN RaceInputs[f]
                        ELSE IF f = A_BCK THEN CHOOSE x \in scripts : TRUE
                        ELSE OLD ]
    /\ procs \in [Procs -> {newProc(cmd, inPath) : cmd \in RaceCommands, inPath \in RaceArgs}]
    /\ CodecIdle
    /\ NamesIdle
    /\ DetectIdle
    /\ FsIdle

\* main.go:31 for decode, router.go:45 for run
CheckSuffix(p) ==
    /\ procs[p].pc = "start"
    /\ IF ~HasSuffix(ToLower(procs[p].inPath), bckSuffix)
       THEN IF procs[p].cmd = "decode"
            THEN failWith(p, [msg |-> "Error: decode command only accepts .bck files"], 2)
            ELSE failWith(p, [msg |-> "Error: run command only accepts .bck files"], 1)
       ELSE procs' = [procs EXCEPT ![p].pc = "checked"]
    /\ UNCHANGED rfs
    /\ UNCHANGED <<codecVars, nameVars, detectVars, fsVars>>

\* os.ReadFile, then the decoding in memory and stripLastBck
ReadInput(p) ==
    /\ procs[p].pc = "checked"
    /\ \E rd \in {readFile(procs[p].inPath, rfs)} :
           IF ~rd.ok
           THEN failWith(p, wrapPathErrNotExist(procs[p].inPath), 1)
           ELSE procs' = [procs EXCEPT
                    ![p].pc = "decoded",
                    ![p].data = IF procs[p].cmd = "run"
                                THEN runDecodeData(rd.data)
                                ELSE decodeData(rd.data),
                    ![p].outPath = stripLastBck(procs[p].inPath)]
    /\ UNCHANGED rfs
    /\ UNCHANGED <<codecVars, nameVars, detectVars, fsVars>>

\* fileExists(outPath): decode goes on to ask, run to number
StatOutput(p) ==
    /\ procs[p].pc = "decoded"
    /\ IF fileExists(procs[p].outPath, DOMAIN rfs)
       THEN IF procs[p].cmd = "decode"
            THEN procs' = [procs EXCEPT ![p].pc = "prompting"]
            ELSE procs' = [procs EXCEPT ![p].pc = "searching", ![p].i = 1]
       ELSE procs' = [procs EXCEPT ![p].pc = "named", ![p].pickedAt = writesDone]
    /\ UNCHANGED rfs
    /\ UNCHANGED <<codecVars, nameVars, detectVars, fsVars>>

\* decode: promptOverwrite reads the answer
Prompt(p, answer) ==
    /\ procs[p].pc = "prompting"
    /\ IF promptOverwrite(answer).failed
       THEN failWith(p, [msg |-> "read error"], 1)
       ELSE IF promptOverwrite(answer).overwrite
            THEN procs' = [procs EXCEPT ![p].pc = "named", ![p].pickedAt = writesDone]
            ELSE procs' = [procs EXCEPT ![p].pc = "searching", ![p].i = 1]
    /\ UNCHANGED rfs
    /\ UNCHANGED <<codecVars, nameVars, detectVars, fsVars>>

\* nextAvailableName: one turn of the loop, one fileExists(candidate)
SearchStep(p) ==
    /\ procs[p].pc = "searching"
    /\ \E candidate \in {candidateName(Dir(procs[p].outPath),
                                       TrimSuffix(Base(procs[p].outPath),
                                                  Ext(Base(procs[p].outPath))),
                                       Ext(Base(procs[p].outPath)),
                                       procs[p].i)} :
           IF fileExists(candidate, DOMAIN rfs)
           THEN procs' = [procs EXCEPT ![p].i = @ + 1]
           ELSE procs' = [procs EXCEPT ![p].pc = "named",
                                       ![p].outPath = candidate,
                                       ![p].numbered = TRUE,
                                       ![p].pickedAt = writesDone]
    /\ UNCHANGED rfs
    /\ UNCHANGED <<codecVars, nameVars, detectVars, fsVars>>

\* os.WriteFile(outPath, ...): decode is done, run goes on
WriteOutput(p) ==
    /\ procs[p].pc = "named"
    /\ IF procs[p].outPath = <<>>
       THEN /\ failWith(p, wrapPathErrNotExist(procs[p].outPath), 1)
            /\ UNCHANGED rfs
       ELSE /\ rfs' = writeFile(procs[p].outPath, procs[p].data, rfs)
            /\ procs' = [procs EXCEPT
                   ![p].pc = IF procs[p].cmd = "run" THEN "written" ELSE "done",
                   ![p].wseq = writesDone + 1]
    /\ UNCHANGED <<codecVars, nameVars, detectVars, fsVars>>

\* run: detectLanguage(outPath) opens the file as it is now
Detect(p) ==
    /\ procs[p].pc = "written"
    /\ \E detected \in {detectLanguage(procs[p].outPath, rfs, getSupportedLanguages)} :
           IF detected.err # NoError
           THEN failWith(p, detected.err, 1)
           ELSE procs' = [procs EXCEPT ![p].pc = "detected", ![p].lang = detected.lang]
    /\ UNCHANGED rfs
    /\ UNCHANGED <<codecVars, nameVars, detectVars, fsVars>>

\* run: executeFile(lang, outPath); the interpreter reads the file as it is
\* when it starts
Execute(p, childOk) ==
    /\ procs[p].pc = "detected"
    /\ \E ex \in {executeFile(procs[p].lang, procs[p].outPath, childOk)} :
           procs' = [procs EXCEPT
               ![p].launched = Append(@, [command |-> ex.launch.command,
                                          args |-> ex.launch.args,
                                          ran |-> rfs[Clean(procs[p].outPath)]]),
               ![p].err = ex.err,
               ![p].exit = IF ex.err = NoError THEN 0 ELSE 1,
               ![p].pc = IF ex.err = NoError THEN "done" ELSE "failed"]
    /\ UNCHANGED rfs
    /\ UNCHANGED <<codecVars, nameVars, detectVars, fsVars>>

ConcurrentNext ==
    \E p \in Procs :
        \/ CheckSuffix(p)
        \/ ReadInput(p)
        \/ StatOutput(p)
        \/ \E answer \in Answers : Prompt(p, answer)
        \/ SearchStep(p)
        \/ WriteOutput(p)
        \/ Detect(p)
        \/ \E childOk \in BOOLEAN : Execute(p, childOk)

SpecConcurrent == ConcurrentInit /\ [][ConcurrentNext]_vars

(***************************************************************************)
(* Properties of the transcoding pipeline                                  *)
(***************************************************************************)
EndsWithLF(b) == Len(b) > 0 /\ b[Len(b)] = LF

RECURSIVE Flatten(_)
Flatten(ss) == IF ss = <<>> THEN <<>> ELSE Head(ss) \o Flatten(Tail(ss))

\* the lines of a buffer that ends with LF, last line first: the text after
\* the first LF reversed, followed by the first line
RECURSIVE LinesReversed(_)
LinesReversed(b) ==
    IF b = <<>> THEN <<>>
    ELSE LET k == CHOOSE i \in 1..Len(b) :
                      b[i] = LF /\ \A j \in 1..(i - 1) : b[j] # LF
         IN  LinesReversed(SubSeq(b, k + 1, Len(b))) \o SubSeq(b, 1, k)

Encoded == cpc \in {"encoded", "decoded", "encoded2", "decoded1", "decoded2"}
Decoded == cpc \in {"decoded", "encoded2", "decoded1", "decoded2"}

\* C1: round-trip law: decoding the output of encode(B) yields exactly B, for
\* every buffer B, also one in which a line is the marker text.
C1_RoundTrip == Decoded => rt = src

\* C2: marker correctness: the first record of encode(B) is the marker if and
\* only if B is non-empty and does not end with a line terminator.
C2_MarkerIff ==
    Encoded => (HasPrefix(enc, marker) <=> (Len(src) > 0 /\ ~EndsWithLF(src)))

\* C3: double-transform law: encoding twice and then decoding twice returns
\* exactly B, also when B contains a line equal to the marker.
C3_DoubleTransform == cpc = "decoded2" => fin = src

\* C4: reversal correctness: for B ending with a terminator, encode(B) is the
\* records of B last to first, each with its own terminator, of the length
\* of B and with no marker added; for a non-empty B without one, it is the
\* marker followed by the records last to first, the last original line given
\* one added LF.
C4_Reversal ==
    Encoded =>
        /\ EndsWithLF(src) =>
              /\ enc = LinesReversed(src)
              /\ Len(enc) = Len(src)
        /\ (Len(src) > 0 /\ ~EndsWithLF(src)) =>
              enc = marker \o LinesReversed(src \o <<LF>>)

C4_Witness ==
    /\ cpc = "encoded"
    /\ src = <<CR, LF, "b", LF>>
    /\ enc = <<"b", LF, CR, LF>>

C9_NextAvailable ==
    (npc = "named" /\ stripped # <<>>) =>
        LET files == ExistingFiles(stripped, taken)
        IN  /\ \E N \in 1..(MaxTaken + 1) :
                  /\ picked.candidate = Numbered(stripped, N)
                  /\ Numbered(stripped, N) \notin files
                  /\ \A k \in 1..(N - 1) : Numbered(stripped, k) \in files
            /\ picked.i <= Cardinality(files) + 1

C9_Witness ==
    /\ npc = "named"
    /\ npath = <<"d", "/", "a", ".", "p", "y", ".", "b", "c", "k">>
    /\ taken = {0, 1, 3}
    /\ picked.candidate = <<"d", "/", "a", "_", "2", ".", "p", "y">>

\* C10: suffix stripping: stripLastBck removes exactly one trailing ".bck",
\* matched case-insensitively, from the final path segment and nothing else,
\* and returns the path unchanged when the final segment does not end in
\* ".bck"; so stripLastBck(n + ".bck") = n.
C10_StripExactlyOne ==
    npc \in {"stripped", "named"} =>
        LET segment == SubSeq(npath, lastSlash(npath) + 1, Len(npath))
        IN  IF HasSuffix(ToLower(segment), bckSuffix)
            THEN stripped = SubSeq(npath, 1, Len(npath) - Len(bckSuffix))
            ELSE stripped = npath

(***************************************************************************)
(* Properties of the detection                                             *)
(***************************************************************************)
\* the whitespace-trimmed first line of the candidate file
TrimmedFirstLine == TrimSpace(firstLineBytes(dfiles[dpath]))

\* descriptor k has a shebang prefix that is a prefix of the line
ShebangMatches(k, line) ==
    /\ HasPrefix(line, SHEBANG)
    /\ \E j \in 1..Len(registry[k].Shebangs) : HasPrefix(line, registry[k].Shebangs[j])

\* descriptor k has the extension of the path, compared case-insensitively
ExtensionMatches(k) ==
    \E j \in 1..Len(registry[k].Extensions) :
        ToLower(registry[k].Extensions[j]) = ToLower(Ext(dpath))

FirstOf(S) == CHOOSE k \in S : \A m \in S : k <= m

Detected == dpc = "detected" /\ dpath \in DOMAIN dfiles

\* C6: detector priority: when the trimmed first line starts with "#!" and
\* some descriptor has a shebang prefix that is a prefix of it, detectLanguage
\* returns the first such descriptor in registry order, whatever the
\* extension of the file.
C6_ShebangPriority ==
    Detected =>
        LET byShebang == {k \in 1..Len(registry) : ShebangMatches(k, TrimmedFirstLine)}
        IN  byShebang # {} =>
                /\ dresult.lang = registry[FirstOf(byShebang)]
                /\ dresult.err = NoError

\* C7: detector fallback and failure: when no shebang prefix matches,
\* detectLanguage returns the first descriptor in registry order that has the
\* extension of the file, compared case-insensitively; when no extension
\* matches either, it returns no descriptor and a "No interpreter found"
\* error naming the file; it returns a descriptor if and only if one of the
\* two steps matches.
C7_FallbackAndFailure ==
    Detected =>
        LET byShebang == {k \in 1..Len(registry) : ShebangMatches(k, TrimmedFirstLine)}
            byExt == {k \in 1..Len(registry) : ExtensionMatches(k)}
        IN  /\ (byShebang = {} /\ byExt # {}) =>
                  /\ dresult.lang = registry[FirstOf(byExt)]
                  /\ dresult.err = NoError
            /\ (byShebang = {} /\ byExt = {}) =>
                  /\ dresult.lang = NoLanguage
                  /\ dresult.err = [msg |-> "Error: No interpreter found",
                                    file |-> Base(dpath)]
            /\ (dresult.lang # NoLanguage) <=> (byShebang # {} \/ byExt # {})

(***************************************************************************)
(* Properties of the tool on a file system                                 *)
(***************************************************************************)
\* C8: file conflict protection: an invocation of encode, decode or run does
\* not replace the content of a file that existed before it, unless the user
\* answered yes to decode's overwrite prompt (then the output path alone).
C8_NoOverwrite ==
    nops > 0 =>
        \A q \in DOMAIN before :
            /\ q \in DOMAIN fs
            /\ fs[q] # before[q] =>
                  /\ call.cmd = "decode"
                  /\ call.answer \in {"y", "yes"}
                  /\ q = Clean(call.outPath)

\* the path ends in ".bck", the case of the letters left aside
EndsInBck(path) ==
    /\ Len(path) >= Len(bckSuffix)
    /\ \A j \in 1..Len(bckSuffix) :
           lowerByte(path[Len(path) - Len(bckSuffix) + j]) = bckSuffix[j]

\* C11: decode and run given a path that does not end in ".bck" (whatever the
\* case) fail before any file is read, written or executed: the file system
\* is left as it was, nothing is launched and the exit status is not 0.
C11_InvalidFormat ==
    (nops > 0 /\ call.cmd \in {"decode", "run"} /\ ~EndsInBck(call.inPath)) =>
        /\ fs = before
        /\ call.events = <<"suffix">>
        /\ call.launched = <<>>
        /\ call.err # NoError
        /\ call.exit # 0

C11_Witness ==
    /\ nops > 0
    /\ call.cmd = "run"
    /\ call.inPath = A_PY
    /\ A_PY \in DOMAIN before
    /\ A_PY_BCK \in DOMAIN before
    /\ call.exit = 1
    /\ fs = before

(***************************************************************************)
(* Properties of the steps of an invocation                                *)
(***************************************************************************)
\* the place of a position of run in the claimed order: suffix check, decode
\* (read, name), write, detect, dispatch
Rank(pc) ==
    CASE pc = "start" -> 0
      [] pc = "checked" -> 1
      [] pc = "decoded" -> 2
      [] pc = "searching" -> 3
      [] pc = "named" -> 4
      [] pc = "written" -> 5
      [] pc = "detected" -> 6
      [] pc = "done" -> 7
      [] OTHER -> 8

\* one step of a process that runs: from a to b, the file system from f to g
RunStepInOrder(a, b, f, g) ==
    \* once ended, with or without an error, nothing more is done: no retry
    /\ a.pc \in {"done", "failed"} => b = a
    \* the steps go forward in the order of the pipeline
    /\ (b.pc # a.pc /\ b.pc # "failed") => Rank(b.pc) > Rank(a.pc)
    \* the output file is written after the suffix check and the decoding,
    \* with the decoded bytes
    /\ (b.wseq # a.wseq) =>
          /\ a.pc = "named"
          /\ b.pc = "written"
          /\ HasSuffix(ToLower(a.inPath), bckSuffix)
          /\ g[Clean(a.outPath)] = a.data
    \* the language is detected after the write, on the file written
    /\ (b.lang # a.lang) =>
          /\ a.pc = "written"
          /\ a.wseq > 0
          /\ b.pc = "detected"
          /\ b.outPath = a.outPath
    \* the interpreter is started once, after a detection that succeeded,
    \* with the descriptor's arguments followed by the path of that file
    /\ (b.launched # a.launched) =>
          /\ a.pc = "detected"
          /\ a.lang # NoLanguage
          /\ a.launched = <<>>
          /\ Len(b.launched) = 1
          /\ b.launched[1].command = a.lang.Command
          /\ b.launched[1].args = a.lang.Args \o <<a.outPath>>
    \* a failure ends run with an error and a status that is not 0
    /\ (b.pc = "failed" /\ a.pc # "failed") =>
          /\ b.err # NoError
          /\ b.exit # 0
          /\ b.launched = a.launched \/ a.pc = "detected"
    /\ (b.pc = "done" /\ a.pc # "done") => (b.err = NoError /\ Len(b.launched) = 1)

\* C12: in every execution of run the steps come in the order suffix check,
\* decode and write of the output file, detection, dispatch; the interpreter
\* is started at most once, only after a detection that succeeded on the file
\* just written, with the descriptor's arguments followed by that path; a
\* failed detection, a failed start or a status other than 0 ends run with an
\* error, and nothing is tried again.
C12_RunPipeline ==
    [][\A p \in Procs :
          procs[p].cmd = "run" =>
              RunStepInOrder(procs[p], procs'[p], rfs, rfs')]_vars

C12_Witness ==
    \E p \in Procs :
        /\ procs[p].cmd = "run"
        /\ procs[p].inPath = A_PY_BCK
        /\ procs[p].pc = "done"
        /\ procs[p].outPath = A_1_PY
        /\ procs[p].launched =
               << [command |-> "python3", args |-> <<A_1_PY>>, ran |-> <<"p", LF>>] >>

\* C13: two invocations (run, or decode answering no) toward the same
\* output path that exists are not coordinated: the existence check of
\* nextAvailableName and the write are separate steps, so both can settle on
\* the same numbered name; whenever they did, the later writer had settled on
\* it before the earlier one wrote, and its write replaced the earlier
\* one's output.
C13_UncoordinatedWrites ==
    \A p, q \in Procs :
        ( /\ p # q
          /\ procs[p].numbered /\ procs[q].numbered
          /\ procs[p].wseq > 0 /\ procs[q].wseq > procs[p].wseq
          /\ Clean(procs[p].outPath) = Clean(procs[q].outPath) ) =>
            /\ procs[q].pickedAt < procs[p].wseq
            /\ rfs[Clean(procs[p].outPath)] = procs[q].data

\* both settled on a_1.py; the decode's write replaced what run had written,
\* and run started the interpreter on the other process's content
C13_Witness ==
    /\ A_PY \in DOMAIN rfs
    /\ procs[1].cmd = "run" /\ procs[1].inPath = A_PY_BCK
    /\ procs[2].cmd = "decode" /\ procs[2].inPath = A_PY_UBCK
    /\ procs[1].outPath = A_1_PY /\ procs[2].outPath = A_1_PY
    /\ procs[1].wseq = 1 /\ procs[2].wseq = 2
    /\ procs[1].data = <<"p", LF>>
    /\ procs[2].data = <<"q">>
    /\ rfs[A_1_PY] = <<"q">>
    /\ procs[1].pc = "done"
    /\ procs[1].launched[1].ran = <<"q">>

\* C14: run and decode compute the same decoded bytes: for every input
\* buffer E, with or without the marker in front, with or without a final
\* newline, what run writes to its output file is what decode writes for E.
C14_SameDecodedBytes ==
    cpc = "direct" => viaRun = viaDecode

C14_Witness ==
    /\ cpc = "direct"
    /\ src = markerText \o <<LF, "a", LF>>
    /\ viaRun = <<"a">>

====
